---- MODULE Spec2Model ----
(***************************************************************************)
(* Model of the multi-product inventory simulation exercised by            *)
(* intro_to_products.py: the 2-node serial network of the script, its      *)
(* products, bill of materials, attribute lookup (get_attribute), network  *)
(* bill of materials (NBOM) and the per-period simulation whose first      *)
(* eleven periods the script documents.                                    *)
(*                                                                         *)
(* Quantities are rational in the script (1.66667 = 5/3).  Every quantity  *)
(* and cost is stored multiplied by Unit, so that all values are integers. *)
(***************************************************************************)
EXTENDS Integers, Sequences, FiniteSets, TLC

VARIABLES nodeAttr, prodAttr, handles, bom,      \* configuration
          result, cfgSteps,                      \* last query, number of configuration writes
          t, IL, RM, pendingFG, orderPipe, shipPipe, hist, onTrace   \* simulation

cfgVars == <<nodeAttr, prodAttr, handles, bom>>
qVars   == <<result, cfgSteps>>
simVars == <<t, IL, RM, pendingFG, orderPipe, shipPipe, hist, onTrace>>
vars    == <<nodeAttr, prodAttr, handles, bom, result, cfgSteps,
             t, IL, RM, pendingFG, orderPipe, shipPipe, hist, onTrace>>

-----------------------------------------------------------------------------
(* Bounds *)
MaxPeriods   == 11    \* periods simulated (the script runs 100)
MaxAttrSteps == 1      \* attribute writes after the initial configuration
MaxBomSteps  == 2      \* add_product / set_bill_of_materials calls after the initial configuration

-----------------------------------------------------------------------------
(* The network, products and constants of the script *)
Unit == 3 * 5                      \* denominators produced by BOM numbers 5 and 3
Nodes == {1, 2}
Products == {10, 20, 30}
EXT == 0                           \* predecessor None: the external supplier
None == -1                         \* attribute not set
ExternalSupplierDummy == -5        \* dummy product of the external supplier
lo == 1
hi == 5
AttrNames == {"local_holding_cost", "stockout_cost", "shipment_lead_time", "inventory_policy"}
AttrValues == {1, 7}               \* values written by the attribute setters explored
BomValues == {3, 5}                \* num_needed values explored

\* serial_system(node_order_in_system=[2, 1]): node 2 is upstream of node 1,
\* and the upstream-most node has supply_type 'U' (external supply).
Predecessor(n) == IF n = 1 THEN 2 ELSE EXT

DummyProduct(n) == 0 - n

Min(a, b) == IF a <= b THEN a ELSE b
Max(a, b) == IF a >= b THEN a ELSE b

ScalarAttr(v) == [isDict |-> FALSE, scalar |-> v, dict |-> <<>>]
DictAttr(d)   == [isDict |-> TRUE, scalar |-> None, dict |-> d]

\* State right after serial_system(...): no products, no BOM.
SerialSystemNodeAttr ==
  [n \in Nodes |->
     [a \in AttrNames |->
        CASE a = "local_holding_cost" -> ScalarAttr(IF n = 1 THEN 5 ELSE None)
          [] a = "stockout_cost"      -> ScalarAttr(IF n = 1 THEN 20 ELSE 0)
          [] a = "shipment_lead_time" -> ScalarAttr(IF n = 1 THEN 1 ELSE 2)
          [] OTHER                    -> ScalarAttr(None)]]

EmptyProdAttr == [p \in Products |-> [a \in AttrNames |-> None]]
EmptyBom == [p \in Products |-> [r \in Products |-> 0]]
EmptyHandles == [n \in Nodes |-> {}]

\* State after the script's configuration (lines 43-67).
ScriptNodeAttr ==
  [SerialSystemNodeAttr EXCEPT ![2]["inventory_policy"] = DictAttr((20 :> 35) @@ (30 :> 20))]
ScriptProdAttr ==
  [EmptyProdAttr EXCEPT ![20]["local_holding_cost"] = 2,
                        ![30]["local_holding_cost"] = 3,
                        ![10]["inventory_policy"] = 6]
ScriptBom == [EmptyBom EXCEPT ![10][20] = 5, ![10][30] = 3]
ScriptHandles == [n \in Nodes |-> IF n = 1 THEN {10} ELSE {20, 30}]

-----------------------------------------------------------------------------
(* Attribute lookup *)

ProductAttr(p, a) == IF p \in Products THEN prodAttr[p][a] ELSE None

\* Variant: the product's own value is consulted before the node's dict.
get_attribute_ProductFirst(n, a, p) ==
  LET na == nodeAttr[n][a] IN
  IF ProductAttr(p, a) # None THEN ProductAttr(p, a)
  ELSE IF na.isDict /\ p \in DOMAIN na.dict THEN na.dict[p]
  ELSE na.scalar

\* SupplyChainNode.get_attribute: (node, product) dict entry first, then the
\* product's own value, then the node's value.
get_attribute(n, a, p) ==
  LET na == nodeAttr[n][a] IN
  IF na.isDict /\ p \in DOMAIN na.dict THEN na.dict[p]
  ELSE IF ProductAttr(p, a) # None THEN ProductAttr(p, a)
  ELSE na.scalar

-----------------------------------------------------------------------------
(* Bill of materials and network bill of materials *)

\* Every node handles at least one product; a node without products gets a dummy.
ProductsAt(n) == IF handles[n] = {} THEN {DummyProduct(n)} ELSE handles[n]

SupplierProducts(pred) == IF pred = EXT THEN {ExternalSupplierDummy} ELSE ProductsAt(pred)

get_bill_of_materials(p, r) ==
  IF p \in Products /\ r \in Products THEN bom[p][r] ELSE 0

\* Some BOM relationship is specified between a product at n and a product at pred.
HasExplicitBom(n, pred) ==
  \E p \in ProductsAt(n) : \E r \in SupplierProducts(pred) : get_bill_of_materials(p, r) > 0

\* Variant: the default of 1 is filled in pair by pair, not per node pair.
NBOM_PairwiseDefault(n, p, pred, r) ==
  IF pred # Predecessor(n) \/ p \notin ProductsAt(n) \/ r \notin SupplierProducts(pred) THEN 0
  ELSE IF get_bill_of_materials(p, r) > 0 THEN get_bill_of_materials(p, r)
  ELSE 1

NBOM(n, p, pred, r) ==
  IF pred # Predecessor(n) \/ p \notin ProductsAt(n) \/ r \notin SupplierProducts(pred) THEN 0
  ELSE IF HasExplicitBom(n, pred) THEN get_bill_of_materials(p, r)
  ELSE 1

\* r is reachable from p along BOM edges (at most three products).
UsesTransitively(p, r) ==
  \/ bom[p][r] > 0
  \/ \E q \in Products : bom[p][q] > 0 /\ (bom[q][r] > 0 \/ \E s \in Products : bom[q][s] > 0 /\ bom[s][r] > 0)

-----------------------------------------------------------------------------
(* Configuration operations *)

NoQuery == [op |-> "none", node |-> 0, attr |-> "", product |-> 0, pred |-> 0, rm |-> 0, value |-> 0]

\* node.<attr> = v
SetNodeScalar(n, a, v) ==
  /\ cfgSteps < MaxAttrSteps
  /\ nodeAttr' = [nodeAttr EXCEPT ![n][a] = ScalarAttr(v)]
  /\ cfgSteps' = cfgSteps + 1
  /\ result' = NoQuery
  /\ UNCHANGED <<prodAttr, handles, bom>>
  /\ UNCHANGED simVars

\* node.<attr> = {product: v, ...}
SetNodeDict(n, a, d) ==
  /\ cfgSteps < MaxAttrSteps
  /\ DOMAIN d \subseteq ProductsAt(n)
  /\ nodeAttr' = [nodeAttr EXCEPT ![n][a] = DictAttr(d)]
  /\ cfgSteps' = cfgSteps + 1
  /\ result' = NoQuery
  /\ UNCHANGED <<prodAttr, handles, bom>>
  /\ UNCHANGED simVars

\* product.<attr> = v
SetProductAttr(p, a, v) ==
  /\ cfgSteps < MaxAttrSteps
  /\ prodAttr' = [prodAttr EXCEPT ![p][a] = v]
  /\ cfgSteps' = cfgSteps + 1
  /\ result' = NoQuery
  /\ UNCHANGED <<nodeAttr, handles, bom>>
  /\ UNCHANGED simVars

\* print(node.get_attribute(attr, product=p))
QueryAttribute(n, a, p) ==
  /\ result' = [NoQuery EXCEPT !.op = "get_attribute", !.node = n, !.attr = a,
                               !.product = p, !.value = get_attribute(n, a, p)]
  /\ UNCHANGED <<cfgVars, cfgSteps>>
  /\ UNCHANGED simVars

\* node.add_product(p)
add_product(n, p) ==
  /\ cfgSteps < MaxBomSteps
  /\ p \notin handles[n]
  /\ handles' = [handles EXCEPT ![n] = @ \cup {p}]
  /\ cfgSteps' = cfgSteps + 1
  /\ result' = NoQuery
  /\ UNCHANGED <<nodeAttr, prodAttr, bom>>
  /\ UNCHANGED simVars

\* product.set_bill_of_materials(raw_material=r, num_needed=q)
set_bill_of_materials(p, r, q) ==
  /\ cfgSteps < MaxBomSteps
  /\ p # r
  /\ ~UsesTransitively(r, p)
  /\ bom' = [bom EXCEPT ![p][r] = q]
  /\ cfgSteps' = cfgSteps + 1
  /\ result' = NoQuery
  /\ UNCHANGED <<nodeAttr, prodAttr, handles>>
  /\ UNCHANGED simVars

\* print(node.NBOM(product=p, predecessor=pred, raw_material=r))
QueryNBOM(n, p, r) ==
  /\ p \in ProductsAt(n)
  /\ r \in SupplierProducts(Predecessor(n))
  /\ result' = [NoQuery EXCEPT !.op = "NBOM", !.node = n, !.product = p,
                               !.pred = Predecessor(n), !.rm = r,
                               !.value = NBOM(n, p, Predecessor(n), r)]
  /\ UNCHANGED <<cfgVars, cfgSteps>>
  /\ UNCHANGED simVars

-----------------------------------------------------------------------------
(* Simulation: helpers *)

RECURSIVE SumF(_, _)
SumF(f, S) ==
  IF S = {} THEN 0
  ELSE LET x == CHOOSE y \in S : TRUE IN f[x] + SumF(f, S \ {x})

RECURSIVE SumSeqF(_, _)
SumSeqF(sq, r) == IF sq = <<>> THEN 0 ELSE Head(sq)[r] + SumSeqF(Tail(sq), r)

Successor(n) == IF n = 2 THEN 1 ELSE EXT

\* Raw materials held by node n: the supplier's products that some product at n needs.
RawMaterials(n) ==
  {r \in SupplierProducts(Predecessor(n)) :
     \E p \in ProductsAt(n) : NBOM(n, p, Predecessor(n), r) > 0}

\* Variant: shipments take one period longer than the lead time.
LeadTime_OneLonger(n) ==
  get_attribute(n, "shipment_lead_time", CHOOSE p \in ProductsAt(n) : TRUE) + 1

LeadTime(n) == get_attribute(n, "shipment_lead_time", CHOOSE p \in ProductsAt(n) : TRUE)

BaseStock(n, p) == get_attribute(n, "inventory_policy", p) * Unit

Rate(v) == IF v = None THEN 0 ELSE v

HoldingRate(n, p) == Rate(get_attribute(n, "local_holding_cost", p))

StockoutRate(n, p) == Rate(get_attribute(n, "stockout_cost", p))

\* Raw material inventory is charged at the holding cost of the raw material.
RawMaterialHoldingRate(n, r) ==
  IF Predecessor(n) = EXT THEN 0 ELSE HoldingRate(Predecessor(n), r)

Zero(S) == [x \in S |-> 0]

Repeat(x, k) == [i \in 1..k |-> x]

-----------------------------------------------------------------------------
(* Simulation: one node's steps within a period *)

\* Finished-goods units on order: ordered, not yet turned into finished goods.
OnOrder(n, p) == pendingFG[n][p] + SumSeqF(orderPipe[n], p)

\* Variant: the inventory position does not count the period's inbound order.
InventoryPosition_BeforeDemand(n, p, io) == IL[n][p] + OnOrder(n, p)

\* Inventory position after the period's inbound order io has been received.
InventoryPosition(n, p, io) == IL[n][p] + OnOrder(n, p) - io[p]

\* Base-stock policy: order up to the base-stock level.
OrderQuantityFG(n, p, io) == Max(BaseStock(n, p) - InventoryPosition(n, p, io), 0)

\* Variant: the most plentiful raw material decides, not the scarcest.
Producible_Max(n, p, pool) ==
  LET used == {r \in DOMAIN pool : NBOM(n, p, Predecessor(n), r) > 0}
      r0 == CHOOSE r \in used : \A s \in used :
              pool[r] * NBOM(n, p, Predecessor(n), s) >= pool[s] * NBOM(n, p, Predecessor(n), r)
  IN pool[r0] \div NBOM(n, p, Predecessor(n), r0)

\* Units of p that the pooled raw material inventory allows.
Producible(n, p, pool) ==
  LET used == {r \in DOMAIN pool : NBOM(n, p, Predecessor(n), r) > 0}
      r0 == CHOOSE r \in used : \A s \in used :
              pool[r] * NBOM(n, p, Predecessor(n), s) <= pool[s] * NBOM(n, p, Predecessor(n), r)
  IN pool[r0] \div NBOM(n, p, Predecessor(n), r0)

\* Variant: one unit of every raw material is consumed per unit made.
RECURSIVE Produce_UnitConsumption(_, _, _, _, _)
Produce_UnitConsumption(n, ps, pool, due, made) ==
  IF ps = {} THEN [pool |-> pool, made |-> made]
  ELSE LET p == CHOOSE x \in ps : \A y \in ps : x <= y
           q == Min(due[p], Producible(n, p, pool))
           pool2 == [r \in DOMAIN pool |->
                       pool[r] - (IF NBOM(n, p, Predecessor(n), r) > 0 THEN q ELSE 0)]
       IN Produce_UnitConsumption(n, ps \ {p}, pool2, due, [made EXCEPT ![p] = q])

\* Raw materials to finished goods, product by product in ascending index,
\* all products drawing on the same pooled raw material inventories.
RECURSIVE Produce(_, _, _, _, _)
Produce(n, ps, pool, due, made) ==
  IF ps = {} THEN [pool |-> pool, made |-> made]
  ELSE LET p == CHOOSE x \in ps : \A y \in ps : x <= y
           q == Min(due[p], Producible(n, p, pool))
           pool2 == [r \in DOMAIN pool |-> pool[r] - q * NBOM(n, p, Predecessor(n), r)]
       IN Produce(n, ps \ {p}, pool2, due, [made EXCEPT ![p] = q])

\* Variant: backorders of earlier periods are never shipped.
Shipment_IgnoringBackorders(level, made, io) == Min(Max(level, 0) + made, io)

\* Variant: a negative level is taken for stock on hand.
Shipment_FromSignedLevel(level, made, io) == Min(level + made, io + Max(0 - level, 0))

\* Outbound shipment: the inbound order plus backorders, as far as stock allows.
Shipment(level, made, io) == Min(Max(level, 0) + made, io + Max(0 - level, 0))

\* Ending state of node n once the quantities made (pr) are known.
NodeRecord(n, io, is, ofg, due, pr) ==
  [IO |-> io,
   OFG |-> ofg,
   OQ |-> [r \in RawMaterials(n) |->
             SumF([p \in DOMAIN ofg |-> ofg[p] * NBOM(n, p, Predecessor(n), r)], DOMAIN ofg)],
   IS |-> is,
   RMprev |-> RM[n],
   RM |-> pr.pool,
   produced |-> pr.made,
   pending |-> [p \in DOMAIN ofg |-> due[p] - pr.made[p]],
   OS |-> [p \in DOMAIN ofg |-> Shipment(IL[n][p], pr.made[p], io[p])],
   ILprev |-> IL[n],
   IL |-> [p \in DOMAIN ofg |-> IL[n][p] + pr.made[p] - io[p]]]

\* Inbound orders, orders placed, receipt, production, shipment and ending
\* state of node n, given its inbound order io and inbound shipment is.
NodePeriod(n, io, is) ==
  LET ps == ProductsAt(n)
      pool == [r \in RawMaterials(n) |-> RM[n][r] + is[r]]
      due == [p \in ps |-> pendingFG[n][p] + Head(orderPipe[n])[p]]
  IN CHOOSE rec \in {NodeRecord(n, io, is, ofg, due, pr) :
                       ofg \in {[p \in ps |-> OrderQuantityFG(n, p, io)]},
                       pr \in {Produce(n, ps, pool, due, Zero(ps))}} : TRUE

\* Variant: raw material inventory is held for free.
HoldingCost_FinishedGoodsOnly(n, level, pool) ==
  SumF([p \in DOMAIN level |-> Max(level[p], 0) * HoldingRate(n, p)], DOMAIN level)

HoldingCost(n, level, pool) ==
  SumF([p \in DOMAIN level |-> Max(level[p], 0) * HoldingRate(n, p)], DOMAIN level)
  + SumF([r \in DOMAIN pool |-> pool[r] * RawMaterialHoldingRate(n, r)], DOMAIN pool)

StockoutCost(n, level) ==
  SumF([p \in DOMAIN level |-> Max(0 - level[p], 0) * StockoutRate(n, p)], DOMAIN level)

\* Variant: the shipment dispatched in the period itself is not charged.
InTransitHoldingCost_WithoutLatest(n, pipe) ==
  IF Successor(n) = EXT \/ pipe = <<>> THEN 0
  ELSE SumF([r \in RawMaterials(Successor(n)) |->
               SumSeqF(SubSeq(pipe, 1, Len(pipe) - 1), r) * HoldingRate(n, r)],
            RawMaterials(Successor(n)))

\* Items shipped by n that have not arrived at the successor, at n's holding cost.
InTransitHoldingCost(n, pipe) ==
  IF Successor(n) = EXT THEN 0
  ELSE SumF([r \in RawMaterials(Successor(n)) |-> SumSeqF(pipe, r) * HoldingRate(n, r)],
            RawMaterials(Successor(n)))

WithCosts(n, np, pipe) ==
  LET hc == HoldingCost(n, np.IL, np.RM)
      sc == StockoutCost(n, np.IL)
      ithc == InTransitHoldingCost(n, pipe)
  IN [IO |-> np.IO, OFG |-> np.OFG, OQ |-> np.OQ, IS |-> np.IS, RMprev |-> np.RMprev,
      RM |-> np.RM, produced |-> np.produced, OS |-> np.OS, ILprev |-> np.ILprev,
      IL |-> np.IL, HC |-> hc, SC |-> sc, ITHC |-> ithc, TC |-> hc + sc + ithc]

-----------------------------------------------------------------------------
(* The documented first rows of the results (in thirds of a unit) *)

DocumentedDemand == <<2, 2, 1, 5, 5, 5, 2, 2, 2, 1, 3>>

\* node 1: IO, OQ20, OQ30, IS20, IS30, RM20, RM30, OS, IL, HC, SC, ITHC, TC
DocumentedNode1 ==
  << <<6, 30, 18, 0, 0, 0, 0, 6, 12, 60, 0, 0, 60>>,
     <<6, 30, 18, 30, 18, 0, 0, 6, 12, 60, 0, 0, 60>>,
     <<3, 15, 9, 30, 18, 0, 0, 3, 15, 75, 0, 0, 75>>,
     <<15, 75, 45, 15, 9, 0, 0, 15, 3, 15, 0, 0, 15>>,
     <<15, 75, 45, 75, 45, 0, 0, 15, 3, 15, 0, 0, 15>>,
     <<15, 75, 45, 30, 15, 5, 0, 8, 0 - 7, 10, 140, 0, 150>>,
     <<6, 30, 18, 75, 45, 5, 0, 13, 2, 20, 0, 0, 20>>,
     <<6, 30, 18, 75, 45, 5, 0, 6, 11, 65, 0, 0, 65>>,
     <<6, 30, 18, 30, 21, 0, 0, 6, 12, 60, 0, 0, 60>>,
     <<3, 15, 9, 30, 18, 0, 0, 3, 15, 75, 0, 0, 75>>,
     <<9, 45, 27, 15, 9, 0, 0, 9, 9, 45, 0, 0, 45>> >>

\* node 2: IO20, IO30, OQext, ISext, RMext, OS20, OS30, IL20, IL30, HC, SC, ITHC, TC
DocumentedNode2 ==
  << <<30, 18, 48, 0, 0, 30, 18, 75, 42, 276, 0, 114, 390>>,
     <<30, 18, 48, 0, 0, 30, 18, 45, 24, 162, 0, 114, 276>>,
     <<15, 9, 24, 48, 0, 15, 9, 60, 33, 219, 0, 57, 276>>,
     <<75, 45, 120, 48, 0, 75, 45, 15, 6, 48, 0, 285, 333>>,
     <<75, 45, 120, 24, 0, 30, 15, 0 - 45, 0 - 30, 0, 0, 105, 105>>,
     <<75, 45, 120, 120, 0, 75, 45, 0 - 45, 0 - 30, 0, 0, 285, 285>>,
     <<30, 18, 48, 120, 0, 75, 45, 0, 0 - 3, 0, 0, 285, 285>>,
     <<30, 18, 48, 120, 0, 30, 21, 45, 24, 162, 0, 123, 285>>,
     <<30, 18, 48, 48, 0, 30, 18, 45, 24, 162, 0, 114, 276>>,
     <<15, 9, 24, 48, 0, 15, 9, 60, 33, 219, 0, 57, 276>>,
     <<45, 27, 72, 48, 0, 45, 27, 45, 24, 162, 0, 171, 333>> >>

Thirds == Unit \div 3

Row1(r) ==
  <<r[1].IO[10], r[1].OQ[20], r[1].OQ[30], r[1].IS[20], r[1].IS[30], r[1].RM[20], r[1].RM[30],
    r[1].OS[10], r[1].IL[10], r[1].HC, r[1].SC, r[1].ITHC, r[1].TC>>

Row2(r) ==
  <<r[2].IO[20], r[2].IO[30], r[2].OQ[ExternalSupplierDummy], r[2].IS[ExternalSupplierDummy],
    r[2].RM[ExternalSupplierDummy], r[2].OS[20], r[2].OS[30], r[2].IL[20], r[2].IL[30],
    r[2].HC, r[2].SC, r[2].ITHC, r[2].TC>>

Scaled(row) == [i \in DOMAIN row |-> row[i] * Thirds]

-----------------------------------------------------------------------------
(* Simulation: state and the period step *)

\* records kept: the current period and one per period of the longest lead time
HistLen == 1 + Max(1, 2)

InitSim ==
  /\ nodeAttr = ScriptNodeAttr
  /\ prodAttr = ScriptProdAttr
  /\ handles = ScriptHandles
  /\ bom = ScriptBom
  /\ result = NoQuery
  /\ cfgSteps = 0
  /\ t = 0
  /\ IL = [n \in Nodes |-> [p \in ProductsAt(n) |-> BaseStock(n, p)]]
  /\ RM = [n \in Nodes |-> Zero(RawMaterials(n))]
  /\ pendingFG = [n \in Nodes |-> Zero(ProductsAt(n))]
  /\ orderPipe = [n \in Nodes |-> Repeat(Zero(ProductsAt(n)), LeadTime(n))]
  /\ shipPipe = [n \in Nodes |-> Repeat(Zero(RawMaterials(n)), LeadTime(n))]
  /\ hist = <<>>
  /\ onTrace = TRUE

\* The period's records and pipelines for external demand d at node 1: orders
\* travel downstream to upstream, shipments upstream to downstream.
PeriodOutcome(d) ==
  LET io1 == [p \in ProductsAt(1) |-> d * Unit]
      np1 == NodePeriod(1, io1, Head(shipPipe[1]))
      \* node 2's inbound order for a product is node 1's order for that raw material
      io2 == [p \in ProductsAt(2) |-> IF p \in DOMAIN np1.OQ THEN np1.OQ[p] ELSE 0]
      np2 == NodePeriod(2, io2, Head(shipPipe[2]))
      \* the external supplier ships the whole order; node 2 ships what it has
      pipe2 == Append(Tail(shipPipe[2]), np2.OQ)
      pipe1 == Append(Tail(shipPipe[1]), [r \in RawMaterials(1) |-> np2.OS[r]])
  IN [np |-> <<np1, np2>>,
      pipe |-> <<pipe1, pipe2>>,
      rec |-> <<WithCosts(1, np1, <<>>), WithCosts(2, np2, pipe1)>>]

\* One period of simulation(network, ...) with external demand d at node 1.
Period(d) ==
  \E out \in {PeriodOutcome(d)} :
     /\ t < MaxPeriods
     /\ t' = t + 1
     /\ IL' = [n \in Nodes |-> out.np[n].IL]
     /\ RM' = [n \in Nodes |-> out.np[n].RM]
     /\ pendingFG' = [n \in Nodes |-> out.np[n].pending]
     /\ orderPipe' = [n \in Nodes |-> Append(Tail(orderPipe[n]), out.np[n].OFG)]
     /\ shipPipe' = out.pipe
     /\ hist' = SubSeq(<<out.rec>> \o hist, 1, Min(Len(hist) + 1, HistLen))
     /\ onTrace' = (onTrace /\ t < Len(DocumentedDemand) /\ d = DocumentedDemand[t + 1])
     /\ UNCHANGED <<cfgVars, qVars>>

NextSim == \E d \in lo..hi : Period(d)

Spec == InitSim /\ [][NextSim]_vars

\* The simulation reproduces the documented rows when fed the documented demands.
MatchesDocumentedResults ==
  (onTrace /\ t >= 1 /\ t <= Len(DocumentedDemand)) =>
     /\ Row1(hist[1]) = Scaled(DocumentedNode1[t])
     /\ Row2(hist[1]) = Scaled(DocumentedNode2[t])

\* Divisions by BOM numbers are exact at the chosen Unit.
QuantitiesExact ==
  /\ \A r \in DOMAIN RM[1] : RM[1][r] % NBOM(1, 10, 2, r) = 0
  /\ \A n \in Nodes : \A r \in DOMAIN RM[n] : RM[n][r] >= 0

-----------------------------------------------------------------------------
(* Attribute lookup and NBOM explored over configurations *)

IdleSim ==
  /\ t = 0
  /\ IL = <<>>
  /\ RM = <<>>
  /\ pendingFG = <<>>
  /\ orderPipe = <<>>
  /\ shipPipe = <<>>
  /\ hist = <<>>
  /\ onTrace = FALSE

\* Dicts a node attribute can be set to: values for some products.
AttrDicts == UNION {[S -> AttrValues] : S \in (SUBSET Products) \ {{}}}

\* Every product index: declared products and (negative) dummy products.
ProductIndices == Products \cup {DummyProduct(n) : n \in Nodes} \cup {ExternalSupplierDummy}

InitAttr ==
  /\ \/ nodeAttr = SerialSystemNodeAttr /\ prodAttr = EmptyProdAttr
     \/ nodeAttr = ScriptNodeAttr /\ prodAttr = ScriptProdAttr
  /\ handles = ScriptHandles
  /\ bom = ScriptBom
  /\ result = NoQuery
  /\ cfgSteps = 0
  /\ IdleSim

NextAttr ==
  \/ \E n \in Nodes, a \in AttrNames, v \in AttrValues \cup {None} : SetNodeScalar(n, a, v)
  \/ \E n \in Nodes, a \in AttrNames, d \in AttrDicts : SetNodeDict(n, a, d)
  \/ \E p \in Products, a \in AttrNames, v \in AttrValues \cup {None} : SetProductAttr(p, a, v)
  \/ \E n \in Nodes, a \in AttrNames, p \in Products : QueryAttribute(n, a, p)

SpecAttr == InitAttr /\ [][NextAttr]_vars

InitNBOM ==
  /\ nodeAttr = ScriptNodeAttr
  /\ prodAttr = ScriptProdAttr
  /\ \/ handles = EmptyHandles /\ bom = EmptyBom
     \/ handles = ScriptHandles /\ bom = ScriptBom
  /\ result = NoQuery
  /\ cfgSteps = 0
  /\ IdleSim

NextNBOM ==
  \/ \E n \in Nodes, p \in Products : add_product(n, p)
  \/ \E p \in Products, r \in Products, q \in BomValues : set_bill_of_materials(p, r, q)
  \/ \E n \in Nodes, p \in ProductIndices, r \in ProductIndices : QueryNBOM(n, p, r)

SpecNBOM == InitNBOM /\ [][NextNBOM]_vars

-----------------------------------------------------------------------------
(* Properties of the simulation.  hist[1] is the record of the period just  *)
(* completed, hist[2] of the one before; hist[k][n] is node n's record.     *)

NodeProducts(n) == DOMAIN hist[1][n].IL
NodeRawMaterials(n) == DOMAIN hist[1][n].RM

Backorder(level) == Max(0 - level, 0)
OnHand(level) == Max(level, 0)

\* Raw material r consumed at node n by the period's production.
Consumed(n, r) ==
  SumF([p \in NodeProducts(n) |-> hist[1][n].produced[p] * NBOM(n, p, Predecessor(n), r)],
       NodeProducts(n))

\* The period's record continues the previous one and agrees with the carried state.
LevelsCarried ==
  \A n \in Nodes : \A p \in NodeProducts(n) :
     /\ hist[1][n].IL[p] = IL[n][p]
     /\ hist[1][n].ILprev[p] = IF t = 1 THEN BaseStock(n, p) ELSE hist[2][n].IL[p]

PoolsCarried ==
  \A n \in Nodes : \A r \in NodeRawMaterials(n) :
     /\ hist[1][n].RM[r] = RM[n][r]
     /\ hist[1][n].RMprev[r] = IF t = 1 THEN 0 ELSE hist[2][n].RM[r]

C2_RawMaterialBalance ==
  t >= 1 =>
    /\ PoolsCarried
    /\ \A n \in Nodes : \A r \in NodeRawMaterials(n) :
         hist[1][n].RM[r] = hist[1][n].RMprev[r] + hist[1][n].IS[r] - Consumed(n, r)
    /\ LET r1 == hist[1][1] IN
       (r1.RMprev[20] = 0 /\ r1.RMprev[30] = 0 /\ r1.IS[20] = 10 * Unit /\ r1.IS[30] = 5 * Unit)
         => (r1.RM[20] = 10 * Unit - 5 * ((5 * Unit) \div 3) /\ r1.RM[30] = 0)

\* Node 1 receives 10 and 5 into empty pools and keeps 5/3 of product 20.
C2_Witness ==
  /\ t >= 1
  /\ hist[1][1].RMprev[20] = 0 /\ hist[1][1].RMprev[30] = 0
  /\ hist[1][1].IS[20] = 10 * Unit /\ hist[1][1].IS[30] = 5 * Unit
  /\ hist[1][1].produced[10] = (5 * Unit) \div 3
  /\ RM[1][20] = (5 * Unit) \div 3

FinishedGoodsHoldingCost(n) ==
  SumF([p \in NodeProducts(n) |->
          OnHand(hist[1][n].IL[p]) * Rate(get_attribute(n, "local_holding_cost", p))],
       NodeProducts(n))

RawMaterialHoldingCost(n) ==
  SumF([r \in NodeRawMaterials(n) |->
          hist[1][n].RM[r] *
            (IF Predecessor(n) = EXT THEN 0
             ELSE Rate(get_attribute(Predecessor(n), "local_holding_cost", r)))],
       NodeRawMaterials(n))

BackorderCost(n) ==
  SumF([p \in NodeProducts(n) |->
          Backorder(hist[1][n].IL[p]) * Rate(get_attribute(n, "stockout_cost", p))],
       NodeProducts(n))

\* C3 as stated: the holding cost of a node is the sum over its products of
\* max(level, 0) x holding rate, the stockout cost the sum of max(-level, 0) x
\* stockout rate, and the holding cost is 0 when no product has a positive level.
C3_CostsFromLevelsOnly ==
  t >= 1 =>
    \A n \in Nodes :
       /\ hist[1][n].HC = FinishedGoodsHoldingCost(n)
       /\ hist[1][n].SC = BackorderCost(n)
       /\ (\A p \in NodeProducts(n) : hist[1][n].IL[p] <= 0) => hist[1][n].HC = 0

\* C3 amended: the holding cost also charges the ending raw material pools at the
\* raw materials' holding rates; it is 0 when no product has a positive level and
\* the pools are empty.  The stockout cost is as stated.
C3_Costs ==
  t >= 1 =>
    \A n \in Nodes :
       /\ hist[1][n].HC = FinishedGoodsHoldingCost(n) + RawMaterialHoldingCost(n)
       /\ hist[1][n].SC = BackorderCost(n)
       /\ ((\A p \in NodeProducts(n) : hist[1][n].IL[p] <= 0)
            /\ (\A r \in NodeRawMaterials(n) : hist[1][n].RM[r] = 0)) => hist[1][n].HC = 0

\* Node 1 ends a period backordered, with raw material left, and pays for both.
C3_Witness ==
  /\ t >= 1
  /\ hist[1][1].IL[10] < 0
  /\ hist[1][1].RM[20] > 0
  /\ hist[1][1].HC = 2 * hist[1][1].RM[20]
  /\ hist[1][1].SC = 20 * (0 - hist[1][1].IL[10])

\* C6: with external demand 2 in period 0, node 1 orders 10 of product 20 and 6 of
\* product 30, ships 2, ends at level 4 with holding cost 20, stockout cost 0 and
\* total 20; node 2 receives orders 10 and 6, orders 16 from the external
\* supplier, ships 10 and 6, ends at levels 25 and 14 with holding cost 92,
\* in-transit holding cost 38 and total 130.
C6_PeriodZero ==
  (t = 1 /\ hist[1][1].IO[10] = 2 * Unit) =>
     /\ hist[1][1].OQ = (20 :> 10 * Unit) @@ (30 :> 6 * Unit)
     /\ hist[1][1].OS[10] = 2 * Unit
     /\ hist[1][1].IL[10] = 4 * Unit
     /\ hist[1][1].HC = 20 * Unit
     /\ hist[1][1].SC = 0
     /\ hist[1][1].TC = 20 * Unit
     /\ hist[1][2].IO = (20 :> 10 * Unit) @@ (30 :> 6 * Unit)
     /\ hist[1][2].OQ[ExternalSupplierDummy] = 16 * Unit
     /\ hist[1][2].OS = (20 :> 10 * Unit) @@ (30 :> 6 * Unit)
     /\ hist[1][2].IL = (20 :> 25 * Unit) @@ (30 :> 14 * Unit)
     /\ hist[1][2].HC = 92 * Unit
     /\ hist[1][2].ITHC = 38 * Unit
     /\ hist[1][2].TC = 130 * Unit

\* Period 0 has run with demand 2 from the script's configuration.
C6_Witness ==
  /\ t = 1
  /\ hist[1][1].IO[10] = 2 * Unit
  /\ hist[1][1].ILprev[10] = 6 * Unit
  /\ hist[1][2].ILprev = (20 :> 35 * Unit) @@ (30 :> 20 * Unit)
  /\ bom[10][20] = 5 /\ bom[10][30] = 3

\* C7: the outbound shipment is never negative, never more than the stock on hand
\* at the start of the period plus the quantity produced, and equals the smaller
\* of that and the inbound order plus earlier backorders; what is not shipped is
\* the backorder at the end of the period (node 2 with levels 5 and 2, making 5
\* and 3, ordered 25 and 15: ships 10 and 5, ends at -15 and -10).
C7_ShipmentBound ==
  t >= 1 =>
    /\ \A n \in Nodes : \A p \in NodeProducts(n) :
         LET r == hist[1][n]
             available == OnHand(r.ILprev[p]) + r.produced[p]
             owed == r.IO[p] + Backorder(r.ILprev[p])
         IN /\ r.OS[p] >= 0
            /\ r.OS[p] <= available
            /\ r.OS[p] = Min(owed, available)
            /\ Backorder(r.IL[p]) = owed - r.OS[p]
    /\ LET r2 == hist[1][2] IN
       (/\ r2.ILprev = (20 :> 5 * Unit) @@ (30 :> 2 * Unit)
        /\ r2.produced = (20 :> 5 * Unit) @@ (30 :> 3 * Unit)
        /\ r2.IO = (20 :> 25 * Unit) @@ (30 :> 15 * Unit))
         => /\ r2.OS = (20 :> 10 * Unit) @@ (30 :> 5 * Unit)
            /\ r2.IL = (20 :> 0 - 15 * Unit) @@ (30 :> 0 - 10 * Unit)

\* Node 2 in the situation of period 4, and later shipping against backorders.
C7_Witness ==
  /\ t >= 1
  /\ hist[1][2].ILprev = (20 :> 5 * Unit) @@ (30 :> 2 * Unit)
  /\ hist[1][2].IO = (20 :> 25 * Unit) @@ (30 :> 15 * Unit)
  /\ hist[1][2].OS = (20 :> 10 * Unit) @@ (30 :> 5 * Unit)
  /\ IL[2] = (20 :> 0 - 15 * Unit) @@ (30 :> 0 - 10 * Unit)

\* C8: in every period the finished-product order of every (node, product) equals
\* the period's inbound order, so that level plus on-order returns to the
\* base-stock level; raw material orders are the finished-product orders times
\* NBOM, summed over the node's products (node 1: 5 x and 3 x the demand; node 2:
\* IO(20) + IO(30) of the external supplier's product).
C8_BaseStockOrdering ==
  t >= 1 =>
    /\ \A n \in Nodes : \A p \in NodeProducts(n) :
         /\ hist[1][n].OFG[p] = hist[1][n].IO[p]
         /\ IL[n][p] + OnOrder(n, p) = Unit * get_attribute(n, "inventory_policy", p)
    /\ \A n \in Nodes : \A r \in NodeRawMaterials(n) :
         hist[1][n].OQ[r] =
           SumF([p \in NodeProducts(n) |-> hist[1][n].IO[p] * NBOM(n, p, Predecessor(n), r)],
                NodeProducts(n))
    /\ hist[1][1].OQ[20] = 5 * hist[1][1].IO[10]
    /\ hist[1][1].OQ[30] = 3 * hist[1][1].IO[10]
    /\ hist[1][2].OQ[ExternalSupplierDummy] = hist[1][2].IO[20] + hist[1][2].IO[30]

\* Orders are placed as usual while node 2 is backordered and node 1 holds stock.
C8_Witness ==
  /\ t >= 2
  /\ hist[1][2].ILprev[20] < 0
  /\ hist[1][2].OFG[20] = hist[1][2].IO[20]
  /\ hist[1][2].IO[20] = 5 * hist[1][1].IO[10]
  /\ hist[1][1].OFG[10] > 0

ConfiguredLeadTime(n) ==
  CHOOSE l \in 0..HistLen : \A p \in NodeProducts(n) : get_attribute(n, "shipment_lead_time", p) = l

\* What was dispatched to node n in the period of record rec: the predecessor's
\* outbound shipment, or the whole order when the supplier is external.
Dispatched(n, rec, r) ==
  IF Predecessor(n) = EXT THEN rec[n].OQ[r] ELSE rec[Predecessor(n)].OS[r]

\* C9: a node with lead time L receives nothing in periods before L, and in
\* period t >= L exactly what was dispatched to it in period t - L.
C9_LeadTimeDelivery ==
  t >= 1 =>
    \A n \in Nodes : \A r \in NodeRawMaterials(n) :
       LET L == ConfiguredLeadTime(n) IN
       IF t <= L THEN hist[1][n].IS[r] = 0
       ELSE hist[1][n].IS[r] = Dispatched(n, hist[L + 1], r)

\* Node 1 receives a partial shipment and node 2 an external delivery.
C9_Witness ==
  /\ t >= 3
  /\ hist[1][1].IS[20] = hist[2][2].OS[20]
  /\ hist[2][2].OS[20] > 0
  /\ hist[2][2].OS[20] < hist[2][2].IO[20]
  /\ hist[1][2].IS[ExternalSupplierDummy] = hist[3][2].OQ[ExternalSupplierDummy]
  /\ hist[3][2].OQ[ExternalSupplierDummy] > 0

\* C10: at the end of every period every pooled raw material inventory is >= 0,
\* the period's production having consumed no more than the pool held after the
\* receipt, also where several products draw on one pool.
C10_PoolNeverNegative ==
  /\ \A n \in Nodes : \A r \in DOMAIN RM[n] : RM[n][r] >= 0
  /\ t >= 1 =>
       \A n \in Nodes : \A r \in NodeRawMaterials(n) :
          /\ Consumed(n, r) <= hist[1][n].RMprev[r] + hist[1][n].IS[r]
          /\ \A p \in NodeProducts(n) :
               NBOM(n, p, Predecessor(n), r) > 0 =>
                 hist[1][n].produced[p] * NBOM(n, p, Predecessor(n), r)
                   <= hist[1][n].RMprev[r] + hist[1][n].IS[r]

\* Products 20 and 30 are both made from node 2's pool, and node 1's production
\* is limited by product 30 while product 20 is left over.
C10_Witness ==
  /\ t >= 1
  /\ hist[1][2].produced[20] > 0 /\ hist[1][2].produced[30] > 0
  /\ RM[2][ExternalSupplierDummy] = 0
  /\ hist[1][1].produced[10] > 0
  /\ RM[1][30] = 0 /\ RM[1][20] > 0

-----------------------------------------------------------------------------
(* Properties of attribute lookup and of the network bill of materials *)

AttributePrecedenceHolds ==
  result.op = "get_attribute" =>
    LET n == result.node  a == result.attr  p == result.product IN
    /\ (nodeAttr[n][a].isDict /\ p \in DOMAIN nodeAttr[n][a].dict)
         => result.value = nodeAttr[n][a].dict[p]
    /\ (~(nodeAttr[n][a].isDict /\ p \in DOMAIN nodeAttr[n][a].dict) /\ prodAttr[p][a] # None)
         => result.value = prodAttr[p][a]
    /\ (~nodeAttr[n][a].isDict /\ prodAttr[p][a] = None)
         => result.value = nodeAttr[n][a].scalar

LookupLeavesAttributes == result'.op = "get_attribute" => UNCHANGED cfgVars

\* C5: get_attribute returns the node's dict entry for the product when there is
\* one, else the product's own value when set, else the node's scalar value, and
\* a lookup changes none of the stored attribute values.
C5_AttributePrecedence == []AttributePrecedenceHolds /\ [][LookupLeavesAttributes]_vars

\* A lookup where the node's dict entry and the product's own value are both set
\* and differ.
C5_Witness ==
  /\ result.op = "get_attribute"
  /\ nodeAttr[result.node][result.attr].isDict
  /\ result.product \in DOMAIN nodeAttr[result.node][result.attr].dict
  /\ prodAttr[result.product][result.attr] # None
  /\ prodAttr[result.product][result.attr] # nodeAttr[result.node][result.attr].dict[result.product]
  /\ result.value = nodeAttr[result.node][result.attr].dict[result.product]

ExplicitInCorridor(n) ==
  \E p \in Products \cap ProductsAt(n) :
     \E r \in Products \cap SupplierProducts(Predecessor(n)) : bom[p][r] > 0

\* C4: NBOM is 1 for every product pair of a node and its predecessor when no
\* BOM entry links any product of the node to any product of the predecessor;
\* when one does, NBOM is the BOM number of the pairs that have one and 0 for the
\* others.  In the script's network NBOM(1, 10, 2, 20) = 5 and NBOM(2, 20,
\* external supplier) = 1.
C4_NBOMCorridorRule ==
  /\ result.op = "NBOM" =>
       LET n == result.node  p == result.product  r == result.rm IN
       /\ result.pred = Predecessor(n)
       /\ ~ExplicitInCorridor(n) => result.value = 1
       /\ ExplicitInCorridor(n) =>
            result.value = IF p \in Products /\ r \in Products THEN bom[p][r] ELSE 0
  /\ (handles = ScriptHandles /\ bom = ScriptBom) =>
       /\ NBOM(1, 10, 2, 20) = 5
       /\ NBOM(2, 20, EXT, ExternalSupplierDummy) = 1

\* A query for a pair without BOM entry between two nodes that some other entry links.
C4_Witness ==
  /\ result.op = "NBOM"
  /\ ExplicitInCorridor(result.node)
  /\ result.product \in Products /\ result.rm \in Products
  /\ bom[result.product][result.rm] = 0
  /\ result.value = 0

====
